---- MODULE Spec2Model ----
(***************************************************************************)
(* A model of the Maverick chess server: the ChessBoard move engine, the   *)
(* ChessMatch turn/status state machine and the TournamentSystem registry  *)
(* (maverick/server/TournamentSystem.py), and the line protocol that       *)
(* serves the registry to clients (maverick/server/NetworkServer.py).      *)
(*                                                                         *)
(* Python values are held as follows.  A colour is the string the source   *)
(* uses ("O", "X").  A piece kind is the source's one-letter string held   *)
(* as a 1-tuple, a board entry is the pair <<colour, kind>> and None is    *)
(* the empty tuple, so that the source's comparisons between a board       *)
(* entry, a kind and None are all defined (a pair never equals a kind, as  *)
(* in Python).  An empty player slot (None) is the identifier 0; real      *)
(* identifiers are >= 1.                                                   *)
(***************************************************************************)
EXTENDS Integers, Sequences, FiniteSets, TLC

VARIABLES
    players,   \* TournamentSystem.players : playerID -> name
    games,     \* TournamentSystem.games   : gameID -> ChessMatch object
    req,       \* the call that has arrived and is not yet handled
    ret,       \* what the last handled call returned
    applied,   \* number of plies a direct ChessBoard caller has applied
    conns,     \* the connections to the network server, one per client
    client     \* a MaverickPlayer: its fields and its position in run()

vars == <<players, games, req, ret, applied, conns, client>>

----------------------------------------------------------------------------
(* Bounds of the exploration *)

\* identifier width: the source draws identifiers from [1, 2**32-1]
IdBits == 2
\* player identifiers offered by callers are 0 (None) .. MaxPlayer
MaxPlayer == 3
\* plies per match (and per directly driven board)
MaxPlies == 2
\* requested squares lie in files 0 .. MaxFile
MaxFile == 1

Names == {"alice", "bob"}

----------------------------------------------------------------------------
(* ChessBoard *)

PAWN == <<"P">>
ROOK == <<"R">>
KNGT == <<"N">>
BISH == <<"B">>
QUEN == <<"Q">>
KING == <<"K">>

BOARD_SIZE == 8

BLACK == "X"
WHITE == "O"

Colors == {WHITE, BLACK}

None == <<>>

Abs(x) == IF x < 0 THEN -x ELSE x

Index == 0 .. (BOARD_SIZE - 1)

\* The list object that board[rank] refers to.  Ranks 2..5 are built by
\* "[[None] * 8] * 4": four references to ONE list, named here by rank 2.
RowOf(rank) == IF rank \in 2..5 THEN 2 ELSE rank

RowObjects == {RowOf(r) : r \in Index}

BackRank == <<ROOK, KNGT, BISH, QUEN, KING, BISH, KNGT, ROOK>>

\* self.board as built by ChessBoard.__init__(startBoard=None)
InitialRows ==
    [o \in RowObjects |->
        [f \in Index |->
            CASE o = 0 -> <<WHITE, BackRank[f + 1]>>
              [] o = 1 -> <<WHITE, PAWN>>
              [] o = 6 -> <<BLACK, PAWN>>
              [] o = 7 -> <<BLACK, BackRank[f + 1]>>
              [] OTHER -> None]]

ChessBoard_init ==
    [rows           |-> InitialRows,
     flag_enpassant |-> [c \in Colors |-> [f \in Index |-> FALSE]],
     flag_canCastle |-> [c \in Colors |-> <<TRUE, TRUE>>]]

\* self.board[rank][file]
At(rows, rank, file) == rows[RowOf(rank)][file]

\* self.board[rank][file] = v
Put(rows, rank, file, v) == [rows EXCEPT ![RowOf(rank)][file] = v]

\* A variant of isLegalMove that counts a pawn's ranks without their
\* direction.
isLegalMove_anyDirection(b, color, fromRank, fromFile, toRank, toFile) ==
    LET origin_entry == At(b.rows, fromRank, fromFile)
        destin_entry == At(b.rows, toRank, toFile)
    IN  IF origin_entry = None \/ origin_entry[1] # color
        THEN FALSE
        ELSE
        LET origin_type    == origin_entry[2]
            pawnStartRank  == IF color = WHITE THEN 2 ELSE 6
            rank_delta     == Abs(toRank - fromRank)
            file_delta_abs == Abs(toFile - fromFile)
            pawnRejected   ==
                \/ rank_delta \notin {1, 2}
                \/ /\ rank_delta = 1
                   /\ \/ file_delta_abs \notin {0, 1}
                      \/ file_delta_abs = 1 /\ destin_entry = None
                      \/ file_delta_abs = 0 /\ destin_entry # None
                \/ /\ rank_delta = 2
                   /\ \/ file_delta_abs # 0
                      \/ fromFile # pawnStartRank
        IN  IF origin_type = PAWN /\ pawnRejected
            THEN FALSE
            ELSE IF destin_entry # None /\ destin_entry[1] = color
            THEN FALSE
            ELSE TRUE

\* A variant of isLegalMove without the last test, for a piece of the
\* mover's colour on the destination.
isLegalMove_noOwnDest(b, color, fromRank, fromFile, toRank, toFile) ==
    LET origin_entry == At(b.rows, fromRank, fromFile)
        destin_entry == At(b.rows, toRank, toFile)
    IN  IF origin_entry = None \/ origin_entry[1] # color
        THEN FALSE
        ELSE
        LET origin_type    == origin_entry[2]
            pawnStartRank  == IF color = WHITE THEN 2 ELSE 6
            direction      == IF color = WHITE THEN 1 ELSE -1
            rank_delta     == (toRank - fromRank) * direction
            file_delta_abs == Abs(toFile - fromFile)
            pawnRejected   ==
                \/ rank_delta \notin {1, 2}
                \/ /\ rank_delta = 1
                   /\ \/ file_delta_abs \notin {0, 1}
                      \/ file_delta_abs = 1 /\ destin_entry = None
                      \/ file_delta_abs = 0 /\ destin_entry # None
                \/ /\ rank_delta = 2
                   /\ \/ file_delta_abs # 0
                      \/ fromFile # pawnStartRank
        IN  ~(origin_type = PAWN /\ pawnRejected)

isLegalMove(b, color, fromRank, fromFile, toRank, toFile) ==
    LET origin_entry == At(b.rows, fromRank, fromFile)
        destin_entry == At(b.rows, toRank, toFile)
    IN  IF origin_entry = None \/ origin_entry[1] # color
        THEN FALSE
        ELSE
        LET origin_type    == origin_entry[2]
            pawnStartRank  == IF color = WHITE THEN 2 ELSE 6
            direction      == IF color = WHITE THEN 1 ELSE -1
            rank_delta     == (toRank - fromRank) * direction
            file_delta_abs == Abs(toFile - fromFile)
            pawnRejected   ==
                \/ rank_delta \notin {1, 2}
                \/ /\ rank_delta = 1
                   /\ \/ file_delta_abs \notin {0, 1}
                      \/ file_delta_abs = 1 /\ destin_entry = None
                      \/ file_delta_abs = 0 /\ destin_entry # None
                \/ /\ rank_delta = 2
                   /\ \/ file_delta_abs # 0
                      \/ fromFile # pawnStartRank
        IN  IF origin_type = PAWN /\ pawnRejected
            THEN FALSE
            ELSE IF destin_entry # None /\ destin_entry[1] = color
            THEN FALSE
            ELSE TRUE

\* A variant of ChessBoard_makePly that lifts the piece before it checks
\* the move.
ChessBoard_makePly_liftFirst(b, color, fromRank, fromFile, toRank, toFile) ==
    IF ~isLegalMove(b, color, fromRank, fromFile, toRank, toFile)
    THEN [ok |-> FALSE,
          board |-> [b EXCEPT !.rows = Put(b.rows, fromRank, fromFile, None)]]
    ELSE [ok |-> TRUE,
          board |-> [b EXCEPT !.rows =
                        Put(Put(b.rows, fromRank, fromFile, None),
                            toRank, toFile, At(b.rows, fromRank, fromFile))]]

\* A variant of ChessBoard_makePly that turns the mover's castling rights
\* over at every ply.
ChessBoard_makePly_flipRights(b, color, fromRank, fromFile, toRank, toFile) ==
    IF ~isLegalMove(b, color, fromRank, fromFile, toRank, toFile)
    THEN [ok |-> FALSE, board |-> b]
    ELSE [ok |-> TRUE,
          board |-> [rows |-> Put(Put(b.rows, fromRank, fromFile, None),
                                  toRank, toFile,
                                  At(b.rows, fromRank, fromFile)),
                     flag_enpassant |-> [b.flag_enpassant EXCEPT
                                            ![color] = [f \in Index |-> FALSE]],
                     flag_canCastle |-> [b.flag_canCastle EXCEPT
                                            ![color] = <<~@[1], ~@[2]>>]]]

\* ChessBoard.makePly: the value returned and the board afterwards
ChessBoard_makePly(b, color, fromRank, fromFile, toRank, toFile) ==
    IF ~isLegalMove(b, color, fromRank, fromFile, toRank, toFile)
    THEN [ok |-> FALSE, board |-> b]
    ELSE
    LET movedPiece     == At(b.rows, fromRank, fromFile)
        rows1          == Put(b.rows, fromRank, fromFile, None)
        ep1            == [b.flag_enpassant EXCEPT
                              ![color] = [f \in Index |-> FALSE]]
        prevCastleFlag == b.flag_canCastle[color]
        cc1            == IF movedPiece = KING
                          THEN [b.flag_canCastle EXCEPT
                                   ![color] = <<FALSE, FALSE>>]
                          ELSE b.flag_canCastle
        cc2            == IF movedPiece = ROOK
                          THEN IF fromFile = 0
                               THEN [cc1 EXCEPT ![color] =
                                        <<FALSE, prevCastleFlag[2]>>]
                               ELSE IF fromFile = 7
                               THEN [cc1 EXCEPT ![color] =
                                        <<prevCastleFlag[1], FALSE>>]
                               ELSE cc1
                          ELSE cc1
        ep2            == IF /\ movedPiece = PAWN
                             /\ fromRank = (IF color = WHITE THEN 1 ELSE 6)
                             /\ Abs(toRank - fromRank) = 2
                          THEN [ep1 EXCEPT ![color][fromFile] = TRUE]
                          ELSE ep1
        rows2          == Put(rows1, toRank, toFile, movedPiece)
        rows3          == IF ep2[color][toFile]
                          THEN IF color = WHITE /\ toRank = BOARD_SIZE - 2
                               THEN Put(rows2, BOARD_SIZE - 2, toFile, None)
                               ELSE IF color = BLACK /\ toRank = 1
                               THEN Put(rows2, 2, toFile, None)
                               ELSE rows2
                          ELSE rows2
    IN  [ok    |-> TRUE,
         board |-> [rows           |-> rows3,
                    flag_enpassant |-> ep2,
                    flag_canCastle |-> cc2]]

----------------------------------------------------------------------------
(* ChessMatch *)

STATUS_PENDING   == "PENDING"
STATUS_ONGOING   == "ONGOING"
STATUS_BLACK_WON == "W_BLACK"
STATUS_WHITE_WON == "W_WHITE"
STATUS_DRAWN     == "W_DRAWN"
STATUS_CANCELLED == "CANCELD"

\* the value None in a player slot or as a playerID argument
NoPlayer == 0

\* ChessMatch.__init__(firstPlayerID); choice is random.choice's colour
ChessMatch_init(firstPlayerID, choice) ==
    [board   |-> ChessBoard_init,
     players |-> [[c \in Colors |-> NoPlayer] EXCEPT ![choice] = firstPlayerID],
     status  |-> STATUS_PENDING,
     history |-> <<>>]

whoseTurn(m) == IF Len(m.history) % 2 = 0 THEN WHITE ELSE BLACK

\* A variant of ChessMatch_makePly that tests the turn against the colour
\* of the previous ply.
ChessMatch_makePly_turnOff(m, player, fromRank, fromFile, toRank, toFile) ==
    IF m.status = STATUS_ONGOING
    THEN IF m.players[WHITE] # player /\ m.players[BLACK] # player
         THEN [ret |-> "You are not a player in this game", match |-> m]
         ELSE
         LET color == IF m.players[WHITE] = player THEN WHITE ELSE BLACK
             r     == ChessBoard_makePly(m.board, color,
                                         fromRank, fromFile, toRank, toFile)
         IN  IF color = whoseTurn(m)
             THEN [ret |-> "It is not your turn", match |-> m]
             ELSE IF r.ok
             THEN [ret   |-> "SUCCESS",
                   match |-> [m EXCEPT
                       !.board = r.board,
                       !.history = Append(@, <<<<fromRank, fromFile>>,
                                               <<toRank, toFile>>>>)]]
             ELSE [ret |-> "Illegal move", match |-> [m EXCEPT !.board = r.board]]
    ELSE [ret |-> "Game not in progress", match |-> m]

\* A variant of ChessMatch_makePly that records the ply before the board
\* has judged it.
ChessMatch_makePly_logFirst(m, player, fromRank, fromFile, toRank, toFile) ==
    IF m.status = STATUS_ONGOING
    THEN IF m.players[WHITE] # player /\ m.players[BLACK] # player
         THEN [ret |-> "You are not a player in this game", match |-> m]
         ELSE
         LET color  == IF m.players[WHITE] = player THEN WHITE ELSE BLACK
             r      == ChessBoard_makePly(m.board, color,
                                          fromRank, fromFile, toRank, toFile)
             logged == Append(m.history, <<<<fromRank, fromFile>>,
                                           <<toRank, toFile>>>>)
         IN  IF color # whoseTurn(m)
             THEN [ret |-> "It is not your turn", match |-> m]
             ELSE [ret   |-> IF r.ok THEN "SUCCESS" ELSE "Illegal move",
                   match |-> [m EXCEPT !.board = r.board, !.history = logged]]
    ELSE [ret |-> "Game not in progress", match |-> m]

\* A variant of ChessMatch_makePly that stops between the board's change
\* and the history's.
ChessMatch_makePly_boardOnly(m, player, fromRank, fromFile, toRank, toFile) ==
    IF m.status = STATUS_ONGOING
    THEN IF m.players[WHITE] # player /\ m.players[BLACK] # player
         THEN [ret |-> "You are not a player in this game", match |-> m]
         ELSE
         LET color == IF m.players[WHITE] = player THEN WHITE ELSE BLACK
             r     == ChessBoard_makePly(m.board, color,
                                         fromRank, fromFile, toRank, toFile)
         IN  IF color # whoseTurn(m)
             THEN [ret |-> "It is not your turn", match |-> m]
             ELSE [ret   |-> IF r.ok THEN "SUCCESS" ELSE "Illegal move",
                   match |-> [m EXCEPT !.board = r.board]]
    ELSE [ret |-> "Game not in progress", match |-> m]

\* A variant of ChessMatch_makePly that looks the player up before it looks
\* at the status.
ChessMatch_makePly_memberFirst(m, player, fromRank, fromFile, toRank, toFile) ==
    IF m.players[WHITE] # player /\ m.players[BLACK] # player
    THEN [ret |-> "You are not a player in this game", match |-> m]
    ELSE IF m.status # STATUS_ONGOING
    THEN [ret |-> "Game not in progress", match |-> m]
    ELSE
    LET color == IF m.players[WHITE] = player THEN WHITE ELSE BLACK
        r     == ChessBoard_makePly(m.board, color,
                                    fromRank, fromFile, toRank, toFile)
    IN  IF color # whoseTurn(m)
        THEN [ret |-> "It is not your turn", match |-> m]
        ELSE IF r.ok
        THEN [ret   |-> "SUCCESS",
              match |-> [m EXCEPT
                  !.board = r.board,
                  !.history = Append(@, <<<<fromRank, fromFile>>,
                                          <<toRank, toFile>>>>)]]
        ELSE [ret |-> "Illegal move", match |-> [m EXCEPT !.board = r.board]]

\* ChessMatch.makePly: the string returned and the match afterwards
ChessMatch_makePly(m, player, fromRank, fromFile, toRank, toFile) ==
    IF m.status = STATUS_ONGOING
    THEN IF m.players[WHITE] # player /\ m.players[BLACK] # player
         THEN [ret |-> "You are not a player in this game", match |-> m]
         ELSE
         LET color == IF m.players[WHITE] = player THEN WHITE ELSE BLACK
             r     == ChessBoard_makePly(m.board, color,
                                         fromRank, fromFile, toRank, toFile)
         IN  IF color # whoseTurn(m)
             THEN [ret |-> "It is not your turn", match |-> m]
             ELSE IF r.ok
             THEN [ret   |-> "SUCCESS",
                   match |-> [m EXCEPT
                       !.board = r.board,
                       !.history = Append(@, <<<<fromRank, fromFile>>,
                                               <<toRank, toFile>>>>)]]
             ELSE [ret |-> "Illegal move", match |-> [m EXCEPT !.board = r.board]]
    ELSE [ret |-> "Game not in progress", match |-> m]

\* A variant of ChessMatch_join without the test for a player who is
\* already seated.
ChessMatch_join_noSelfCheck(m, playerID) ==
    IF m.status # STATUS_PENDING
    THEN [ret |-> "None", match |-> m]
    ELSE IF \E c \in Colors : m.players[c] = NoPlayer
    THEN LET color == IF m.players[WHITE] = NoPlayer THEN WHITE ELSE BLACK
             seated == [m.players EXCEPT ![color] = playerID]
         IN  [ret   |-> color,
              match |-> [m EXCEPT
                  !.players = seated,
                  !.status  = IF \A c \in Colors : seated[c] # NoPlayer
                              THEN STATUS_ONGOING ELSE @]]
    ELSE [ret |-> "None", match |-> m]

\* A variant of ChessMatch_join that seats the player and leaves the status
\* alone.
ChessMatch_join_neverStarts(m, playerID) ==
    IF m.status # STATUS_PENDING
    THEN [ret |-> "None", match |-> m]
    ELSE IF \E c \in Colors : m.players[c] = playerID
    THEN [ret |-> "None", match |-> m]
    ELSE IF \E c \in Colors : m.players[c] = NoPlayer
    THEN LET color == IF m.players[WHITE] = NoPlayer THEN WHITE ELSE BLACK
             seated == [m.players EXCEPT ![color] = playerID]
         IN  [ret   |-> color,
              match |-> [m EXCEPT
                  !.players = seated,
                  !.status  = @]]
    ELSE [ret |-> "None", match |-> m]

\* A variant of ChessMatch_join that starts the game with the first player
\* seated.
ChessMatch_join_startsEarly(m, playerID) ==
    IF m.status # STATUS_PENDING
    THEN [ret |-> "None", match |-> m]
    ELSE IF \E c \in Colors : m.players[c] = playerID
    THEN [ret |-> "None", match |-> m]
    ELSE IF \E c \in Colors : m.players[c] = NoPlayer
    THEN LET color == IF m.players[WHITE] = NoPlayer THEN WHITE ELSE BLACK
             seated == [m.players EXCEPT ![color] = playerID]
         IN  [ret   |-> color,
              match |-> [m EXCEPT
                  !.players = seated,
                  !.status  = STATUS_ONGOING]]
    ELSE [ret |-> "None", match |-> m]

\* A variant of ChessMatch_join without the test for a PENDING match.
ChessMatch_join_noStatusCheck(m, playerID) ==
    IF \E c \in Colors : m.players[c] = playerID
    THEN [ret |-> "None", match |-> m]
    ELSE IF \E c \in Colors : m.players[c] = NoPlayer
    THEN LET color == IF m.players[WHITE] = NoPlayer THEN WHITE ELSE BLACK
             seated == [m.players EXCEPT ![color] = playerID]
         IN  [ret   |-> color,
              match |-> [m EXCEPT
                  !.players = seated,
                  !.status  = IF \A c \in Colors : seated[c] # NoPlayer
                              THEN STATUS_ONGOING ELSE @]]
    ELSE [ret |-> "None", match |-> m]

\* ChessMatch.join: the colour returned ("None" for None) and the match
\* afterwards
ChessMatch_join(m, playerID) ==
    IF m.status # STATUS_PENDING
    THEN [ret |-> "None", match |-> m]
    ELSE IF \E c \in Colors : m.players[c] = playerID
    THEN [ret |-> "None", match |-> m]
    ELSE IF \E c \in Colors : m.players[c] = NoPlayer
    THEN LET color == IF m.players[WHITE] = NoPlayer THEN WHITE ELSE BLACK
             seated == [m.players EXCEPT ![color] = playerID]
         IN  [ret   |-> color,
              match |-> [m EXCEPT
                  !.players = seated,
                  !.status  = IF \A c \in Colors : seated[c] # NoPlayer
                              THEN STATUS_ONGOING ELSE @]]
    ELSE [ret |-> "None", match |-> m]

----------------------------------------------------------------------------
(* TournamentSystem *)

Range(f) == {f[x] : x \in DOMAIN f}

\* _getUniqueInt: maxVals = 2**32-1 and maxSize = 2**31, at the model's width
maxVals == 2^IdBits - 1
maxSize == 2^(IdBits - 1)

\* A variant of _getUniqueInt without the test that fails fast.
getUniqueInt_neverRaises(intList) == FALSE

\* _getUniqueInt(intList) raises RuntimeError
getUniqueInt_raises(intList) == Cardinality(intList) >= maxSize

\* A variant of _getUniqueInt that keeps its first draw.
getUniqueInt_noRedraw(intList) == 1..maxVals

\* A variant of _getUniqueInt that draws from [0, maxVals].
getUniqueInt_fromZero(intList) == {n \in 0..maxVals : n \notin intList}

\* the integers _getUniqueInt(intList) can return: a draw from [1, maxVals],
\* drawn again while it is in intList
getUniqueInt(intList) == {n \in 1..maxVals : n \notin intList}

\* What a call returned.  kind is "ok" for (True, payload), "fail" for
\* (False, {"error": text}), "value" for a plain value (text), "none" for
\* None and "raise" for an exception (text names it); id is the identifier
\* in the payload.  who is the playerID the call was made with.
Ret(op, kind, text, id) ==
    [op |-> op, kind |-> kind, text |-> text, id |-> id, who |-> 0]

By(r, playerID) == [r EXCEPT !.who = playerID]

NoRet == Ret("none", "none", "", 0)

\* A variant of register without the test for a name already taken.
register_noDupCheck(ps, name, newID) ==
    IF getUniqueInt_raises(DOMAIN ps)
    THEN [ret |-> Ret("register", "raise", "RuntimeError", 0), players |-> ps]
    ELSE [ret |-> Ret("register", "ok", "playerID", newID),
          players |-> [k \in DOMAIN ps \cup {newID} |->
                          IF k = newID THEN name ELSE ps[k]]]

\* TournamentSystem.register(name), newID being _getUniqueInt's draw
register(ps, name, newID) ==
    IF name \in Range(ps)
    THEN [ret |-> Ret("register", "fail",
                      "player with this name already exists", 0),
          players |-> ps]
    ELSE IF getUniqueInt_raises(DOMAIN ps)
    THEN [ret |-> Ret("register", "raise", "RuntimeError", 0), players |-> ps]
    ELSE [ret |-> Ret("register", "ok", "playerID", newID),
          players |-> [k \in DOMAIN ps \cup {newID} |->
                          IF k = newID THEN name ELSE ps[k]]]

\* TournamentSystem.joinGame(playerID).  "for (gameID, game) in self.games"
\* iterates the dict's keys: with any game present the first key, an int,
\* fails to unpack into (gameID, game) and the call ends in TypeError.
joinGame(gs, playerID, choice, newID) ==
    IF DOMAIN gs # {}
    THEN [ret |-> Ret("joinGame", "raise", "TypeError", 0), games |-> gs]
    ELSE IF getUniqueInt_raises(DOMAIN gs)
    THEN [ret |-> Ret("joinGame", "raise", "RuntimeError", 0), games |-> gs]
    ELSE [ret |-> Ret("joinGame", "ok", "gameID", newID),
          games |-> [k \in DOMAIN gs \cup {newID} |->
                        IF k = newID THEN ChessMatch_init(playerID, choice)
                        ELSE gs[k]]]

\* A variant of cancelGame that deletes the cancelled match.
cancelGame_removes(gs, gameID) ==
    IF gameID \in DOMAIN gs
    THEN IF gs[gameID].status \in {STATUS_ONGOING, STATUS_PENDING}
         THEN [ret |-> Ret("cancelGame", "none", "", 0),
               games |-> [k \in DOMAIN gs \ {gameID} |-> gs[k]]]
         ELSE [ret |-> Ret("cancelGame", "fail", "Game not active", 0),
               games |-> gs]
    ELSE [ret |-> Ret("cancelGame", "fail", "Invalid game ID", 0), games |-> gs]

\* TournamentSystem.cancelGame(gameID); no return statement on success
cancelGame(gs, gameID) ==
    IF gameID \in DOMAIN gs
    THEN IF gs[gameID].status \in {STATUS_ONGOING, STATUS_PENDING}
         THEN [ret |-> Ret("cancelGame", "none", "", 0),
               games |-> [gs EXCEPT ![gameID].status = STATUS_CANCELLED]]
         ELSE [ret |-> Ret("cancelGame", "fail", "Game not active", 0),
               games |-> gs]
    ELSE [ret |-> Ret("cancelGame", "fail", "Invalid game ID", 0), games |-> gs]

\* TournamentSystem.getStatus(gameID)
getStatus(gs, gameID) ==
    IF gameID \in DOMAIN gs
    THEN Ret("getStatus", "ok", gs[gameID].status, 0)
    ELSE Ret("getStatus", "fail", "Invalid game ID", 0)

\* TournamentSystem.getState(gameID): the payload reads g.board.history, an
\* attribute ChessBoard does not have
getState(gs, gameID) ==
    IF gameID \in DOMAIN gs
    THEN Ret("getState", "raise", "AttributeError", 0)
    ELSE Ret("getState", "fail", "Invalid game ID", 0)

\* TournamentSystem.makePly: it passes gameID on to ChessMatch.makePly, six
\* arguments where the method takes five
TournamentSystem_makePly(gs, playerID, gameID, fromRank, fromFile, toRank, toFile) ==
    IF gameID \in DOMAIN gs
    THEN Ret("makePly", "raise", "TypeError", 0)
    ELSE Ret("makePly", "fail", "Invalid game ID", 0)

----------------------------------------------------------------------------
(* Calls.  A call arrives (req), its handler runs as one step and leaves   *)
(* what it returned in ret.                                                *)

Req(op, name, player, game, color, ply) ==
    [op |-> op, name |-> name, player |-> player, game |-> game,
     color |-> color, ply |-> ply]

NoPly == <<<<0, 0>>, <<0, 0>>>>

Idle == Req("idle", "", NoPlayer, 0, WHITE, NoPly)

PlayerInputs == 0 .. MaxPlayer

GameInputs == 0 .. maxVals

\* requested squares <<rank, file>>
ReqSquares == Index \X (0 .. MaxFile)

\* requested plies <<from, to>>: to lies at most one rank from from
PlyInputs == {p \in ReqSquares \X ReqSquares : Abs(p[2][1] - p[1][1]) <= 1}

\* the plies sent through the registry: White's a-pawn one square forward,
\* and the same pawn to its own square
RegistryPlies == {<<<<1, 0>>, <<2, 0>>>>, <<<<1, 0>>, <<1, 0>>>>}

\* the match object the ChessMatch-level and ChessBoard-level callers hold
FirstGameID == CHOOSE n \in getUniqueInt({}) : TRUE

RegistryRequests ==
    {Req("register", n, NoPlayer, 0, WHITE, NoPly) : n \in Names}
    \cup {Req("joinGame", "", p, 0, WHITE, NoPly) : p \in PlayerInputs}
    \cup {Req(o, "", NoPlayer, g, WHITE, NoPly) :
             o \in {"cancelGame", "getStatus", "getState"}, g \in GameInputs}
    \cup {Req("makePly", "", x[1], x[2], WHITE, x[3]) :
             x \in PlayerInputs \X GameInputs \X RegistryPlies}

MatchRequests ==
    {Req("ChessMatch.join", "", p, FirstGameID, WHITE, NoPly) : p \in PlayerInputs}
    \cup {Req("ChessMatch.makePly", "", x[1], FirstGameID, WHITE, x[2]) :
             x \in PlayerInputs \X PlyInputs}
    \cup {Req("cancelGame", "", NoPlayer, g, WHITE, NoPly) : g \in GameInputs}

\* plies requested of the board directly: one file more, and to lies at
\* most two ranks from from
BoardSquares == Index \X (0 .. MaxFile + 1)

BoardPlies == {p \in BoardSquares \X BoardSquares : Abs(p[2][1] - p[1][1]) <= 2}

BoardRequests ==
    {Req("ChessBoard.makePly", "", NoPlayer, FirstGameID, x[1], x[2]) :
        x \in Colors \X BoardPlies}

(* NetworkServer.MaverickProtocol: one connection per client, one request  *)
(* line per connection.  The reactor is single-threaded and lineReceived   *)
(* has no point at which it gives up control, so a line is handled in one  *)
(* step.                                                                   *)

Clients == {"c1", "c2"}

\* A request line "VERB tail".  verb is line.partition(" ")[0], the text
\* before the first space, and tail is line.partition(" ")[2], the text
\* after it.  The tail is held as the arguments the client spelled in it
\* (argument name -> value); the empty text spells none.
Line(verb, tail) == [verb |-> verb, tail |-> tail]

NoArgs == [k \in {} |-> ""]

NoLine == Line("", NoArgs)

NameTail(n) == [name |-> n]

JoinTail == [playerID |-> 1]

StatusTail == [playerID |-> 1, gameID |-> 1]

PlyTail ==
    [playerID |-> 1, gameID |-> 1,
     fromRank |-> 1, fromFile |-> 0, toRank |-> 2, toFile |-> 0]

\* the lines clients send
Lines ==
    {Line("REGISTER", NameTail(n)) : n \in Names}
    \cup {Line("REGISTER", NoArgs),
          Line("JOIN_GAME", JoinTail),
          Line("JOIN_GAME", NameTail("alice")),
          Line("GET_STATUS", StatusTail),
          Line("GET_STATE", StatusTail),
          Line("MAKE_PLY", PlyTail),
          Line("HELLO", NoArgs)}

\* validRequests: request name -> (TournamentSystem method, expected
\* argument names)
validRequests ==
    [REGISTER   |-> [tsCommand |-> "register", expArgs |-> {"name"}],
     JOIN_GAME  |-> [tsCommand |-> "joinGame", expArgs |-> {"playerID"}],
     GET_STATUS |-> [tsCommand |-> "getStatus",
                     expArgs |-> {"playerID", "gameID"}],
     GET_STATE  |-> [tsCommand |-> "getState",
                     expArgs |-> {"playerID", "gameID"}],
     MAKE_PLY   |-> [tsCommand |-> "makePly",
                     expArgs |-> {"playerID", "gameID", "fromRank",
                                  "fromFile", "toRank", "toFile"}]]

\* the parameter names of the TournamentSystem methods
tsParams ==
    [register  |-> {"name"},
     joinGame  |-> {"playerID"},
     getStatus |-> {"gameID"},
     getState  |-> {"gameID"},
     makePly   |-> {"playerID", "gameID", "fromRank", "fromFile",
                    "toRank", "toFile"}]

\* tsCommand(**requestArgs): a keyword that is not a parameter of the
\* method, or a parameter left without a value, is a TypeError
tsCall(cmd, requestArgs, ps, gs, choice, newID) ==
    IF DOMAIN requestArgs # tsParams[cmd]
    THEN [ret |-> Ret(cmd, "raise", "TypeError", 0), players |-> ps, games |-> gs]
    ELSE IF cmd = "register"
    THEN LET r == register(ps, requestArgs.name, newID)
         IN  [ret |-> r.ret, players |-> r.players, games |-> gs]
    ELSE IF cmd = "joinGame"
    THEN LET r == joinGame(gs, requestArgs.playerID, choice, newID)
         IN  [ret |-> r.ret, players |-> ps, games |-> r.games]
    ELSE IF cmd = "getStatus"
    THEN [ret |-> getStatus(gs, requestArgs.gameID), players |-> ps, games |-> gs]
    ELSE IF cmd = "getState"
    THEN [ret |-> getState(gs, requestArgs.gameID), players |-> ps, games |-> gs]
    ELSE [ret |-> TournamentSystem_makePly(gs, requestArgs.playerID,
                      requestArgs.gameID, requestArgs.fromRank,
                      requestArgs.fromFile, requestArgs.toRank,
                      requestArgs.toFile),
          players |-> ps, games |-> gs]

\* A line sent to the client.  "SUCCESS {0}".format(str(result)) carries the
\* payload's key (text) and identifier (id); "ERROR: {1} [query=\"{0}\"]"
\* carries the error message (text, with the expected argument names or the
\* verb it quotes) and the request line.
Response(status, text, id, expected, verb, query) ==
    [status |-> status, text |-> text, id |-> id, expected |-> expected,
     verb |-> verb, query |-> query]

Welcome ==
    Response("WELCOME", "MaverickChessServer/1.0a1 WaitingForRequest",
             0, {}, "", NoLine)

Success(r) == Response("SUCCESS", r.text, r.id, {}, "", NoLine)

InvalidArguments(expArgs, line) ==
    Response("ERROR", "Invalid arguments, expected: {0}", 0, expArgs, "", line)

UnrecognizedVerb(requestName, line) ==
    Response("ERROR", "Unrecognized verb \"{0}\" in request", 0, {},
             requestName, line)

HandlerError(r, line) == Response("ERROR", r.text, 0, {}, "", line)

\* what lineReceived did: the registry after it, the lines it sent, the
\* method it called ("" for none) and whether it ended in an exception
\* (sendLine and loseConnection not reached)
Handled(ps, gs, sent, called, fault) ==
    [players |-> ps, games |-> gs, sent |-> sent, called |-> called,
     fault |-> fault]

\* A variant of lineReceived that goes on to the method whatever the
\* argument names are.
lineReceived_noArgCheck(ps, gs, line, choice, newID) ==
    LET requestName == line.verb
        requestArgs == [name |-> line.tail]
    IN  IF requestName \in DOMAIN validRequests
        THEN LET v == validRequests[requestName]
                 r == tsCall(v.tsCommand, requestArgs, ps, gs, choice, newID)
             IN  IF r.ret.kind = "ok"
                 THEN Handled(r.players, r.games, <<Success(r.ret)>>,
                              v.tsCommand, FALSE)
                 ELSE IF r.ret.kind = "fail"
                 THEN Handled(r.players, r.games,
                              <<HandlerError(r.ret, line)>>, v.tsCommand, FALSE)
                 ELSE Handled(r.players, r.games, <<>>, v.tsCommand, TRUE)
        ELSE Handled(ps, gs, <<UnrecognizedVerb(requestName, line)>>, "", FALSE)

\* MaverickProtocol.lineReceived(line); choice and newID are the random
\* draws of the method it calls
lineReceived(ps, gs, line, choice, newID) ==
    LET requestName == line.verb
        requestArgs == [name |-> line.tail]
    IN  IF requestName \in DOMAIN validRequests
        THEN LET v == validRequests[requestName]
             IN  IF v.expArgs # DOMAIN requestArgs
                 THEN Handled(ps, gs, <<InvalidArguments(v.expArgs, line)>>,
                              "", FALSE)
                 ELSE LET r == tsCall(v.tsCommand, requestArgs, ps, gs,
                                      choice, newID)
                      IN  IF r.ret.kind = "ok"
                          THEN Handled(r.players, r.games,
                                       <<Success(r.ret)>>, v.tsCommand, FALSE)
                          ELSE IF r.ret.kind = "fail"
                          THEN Handled(r.players, r.games,
                                       <<HandlerError(r.ret, line)>>,
                                       v.tsCommand, FALSE)
                          ELSE Handled(r.players, r.games, <<>>,
                                       v.tsCommand, TRUE)
        ELSE Handled(ps, gs, <<UnrecognizedVerb(requestName, line)>>, "", FALSE)

\* a connection: where it is ("none", "open", "sent", "closed", "fault"),
\* the request line the client wrote, the lines sent to the client, and the
\* method lineReceived called
Conn(at, line, sent, called) ==
    [at |-> at, line |-> line, sent |-> sent, called |-> called]

NoConns == [c \in Clients |-> Conn("none", NoLine, <<>>, "")]

----------------------------------------------------------------------------
\* a call on the registry arrives
CallRegistry ==
    /\ req.op = "idle"
    /\ req' \in RegistryRequests
    /\ ret' = NoRet
    /\ UNCHANGED <<players, games, applied, conns, client>>

\* a call on the match object arrives
CallMatch ==
    /\ req.op = "idle"
    /\ req' \in MatchRequests
    /\ req'.op = "ChessMatch.makePly" => Len(games[FirstGameID].history) < MaxPlies
    /\ ret' = NoRet
    /\ UNCHANGED <<players, games, applied, conns, client>>

\* a call on the match's board object arrives
CallBoard ==
    /\ req.op = "idle"
    /\ applied < MaxPlies
    /\ req' \in BoardRequests
    /\ ret' = NoRet
    /\ UNCHANGED <<players, games, applied, conns, client>>

Register ==
    /\ req.op = "register"
    /\ \E newID \in IF getUniqueInt(DOMAIN players) = {} THEN {0}
                    ELSE getUniqueInt(DOMAIN players) :
          LET r == register(players, req.name, newID)
          IN  players' = r.players /\ ret' = r.ret
    /\ req' = Idle
    /\ UNCHANGED <<games, applied, conns, client>>

JoinGame ==
    /\ req.op = "joinGame"
    /\ \E choice \in Colors :
       \E newID \in IF getUniqueInt(DOMAIN games) = {} THEN {0}
                    ELSE getUniqueInt(DOMAIN games) :
          LET r == joinGame(games, req.player, choice, newID)
          IN  games' = r.games /\ ret' = By(r.ret, req.player)
    /\ req' = Idle
    /\ UNCHANGED <<players, applied, conns, client>>

CancelGame ==
    /\ req.op = "cancelGame"
    /\ LET r == cancelGame(games, req.game)
       IN  games' = r.games /\ ret' = r.ret
    /\ req' = Idle
    /\ UNCHANGED <<players, applied, conns, client>>

GetStatus ==
    /\ req.op = "getStatus"
    /\ ret' = getStatus(games, req.game)
    /\ req' = Idle
    /\ UNCHANGED <<players, games, applied, conns, client>>

GetState ==
    /\ req.op = "getState"
    /\ ret' = getState(games, req.game)
    /\ req' = Idle
    /\ UNCHANGED <<players, games, applied, conns, client>>

MakePly ==
    /\ req.op = "makePly"
    /\ ret' = By(TournamentSystem_makePly(games, req.player, req.game,
                     req.ply[1][1], req.ply[1][2], req.ply[2][1], req.ply[2][2]),
                 req.player)
    /\ req' = Idle
    /\ UNCHANGED <<players, games, applied, conns, client>>

MatchJoin ==
    /\ req.op = "ChessMatch.join"
    /\ LET r == ChessMatch_join(games[req.game], req.player)
       IN  /\ games' = [games EXCEPT ![req.game] = r.match]
           /\ ret' = By(IF r.ret = "None"
                        THEN Ret("ChessMatch.join", "none", "", 0)
                        ELSE Ret("ChessMatch.join", "value", r.ret, 0),
                        req.player)
    /\ req' = Idle
    /\ UNCHANGED <<players, applied, conns, client>>

MatchMakePly ==
    /\ req.op = "ChessMatch.makePly"
    /\ LET r == ChessMatch_makePly(games[req.game], req.player,
                  req.ply[1][1], req.ply[1][2], req.ply[2][1], req.ply[2][2])
       IN  /\ games' = [games EXCEPT ![req.game] = r.match]
           /\ ret' = By(Ret("ChessMatch.makePly", "value", r.ret, 0), req.player)
    /\ req' = Idle
    /\ UNCHANGED <<players, applied, conns, client>>

BoardMakePly ==
    /\ req.op = "ChessBoard.makePly"
    /\ LET r == ChessBoard_makePly(games[req.game].board, req.color,
                  req.ply[1][1], req.ply[1][2], req.ply[2][1], req.ply[2][2])
       IN  /\ games' = [games EXCEPT ![req.game].board = r.board]
           /\ ret' = Ret("ChessBoard.makePly", "value",
                         IF r.ok THEN "True" ELSE "False", 0)
           /\ applied' = applied + (IF r.ok THEN 1 ELSE 0)
    /\ req' = Idle
    /\ UNCHANGED <<players, conns, client>>

\* MaverickProtocol.connectionMade: a client connects (again) and is sent
\* the welcome line
ConnectionMade(c) ==
    /\ conns[c].at \in {"none", "closed", "fault"}
    /\ conns' = [conns EXCEPT ![c] = Conn("open", NoLine, <<Welcome>>, "")]
    /\ UNCHANGED <<players, games, req, ret, applied, client>>

\* the client's request line arrives
ClientSends(c) ==
    /\ conns[c].at = "open"
    /\ \E line \in Lines :
          conns' = [conns EXCEPT ![c] = Conn("sent", line, @.sent, "")]
    /\ UNCHANGED <<players, games, req, ret, applied, client>>

\* the reactor hands the line to lineReceived, which answers and closes the
\* connection, or ends in the exception of the method it called
LineReceived(c) ==
    /\ conns[c].at = "sent"
    /\ LET line == conns[c].line
           ids  == IF line.verb = "JOIN_GAME" THEN DOMAIN games
                   ELSE DOMAIN players
       IN  \E choice \in Colors :
           \E newID \in IF getUniqueInt(ids) = {} THEN {0}
                        ELSE getUniqueInt(ids) :
              LET r == lineReceived(players, games, line, choice, newID)
              IN  /\ players' = r.players
                  /\ games' = r.games
                  /\ conns' = [conns EXCEPT ![c] =
                                 Conn(IF r.fault THEN "fault" ELSE "closed",
                                      line, @.sent \o r.sent, r.called)]
    /\ UNCHANGED <<req, ret, applied, client>>

----------------------------------------------------------------------------
(* Specifications *)

NoPlayers == [k \in {} |-> ""]

(* players.common.MaverickPlayer: one player's startPlaying() and run().   *)
(* Its requests are answered from the match it plays in: request_getStatus *)
(* by the match's status, request_getState()['isWhitesTurn'] by            *)
(* whoseTurn() == WHITE, and request_makePly is a ChessMatch.makePly with  *)
(* the player's playerID.                                                  *)

\* self.playerID and the playerID of the other player of the match
Me == 1
Opponent == 2

\* the match self.gameID names
Match == games[FirstGameID]

\* the player's fields (self.isWhite, FALSE standing for the None it holds
\* until startPlaying sets it), the last answers it got (status,
\* whitesTurn) and its position in run(): at is the statement it is about
\* to execute
Client(at, isWhite, status, whitesTurn) ==
    [at |-> at, isWhite |-> isWhite, status |-> status, whitesTurn |-> whitesTurn]

\* no player is running
NoClient == Client("none", FALSE, "", FALSE)

\* request_getStatus()
request_getStatus == Match.status

\* request_getState()['isWhitesTurn']
request_isWhitesTurn == whoseTurn(Match) = WHITE

\* startPlaying: "while self.request_getStatus() == STATUS_PENDING" is left
\* and isWhite is set from the colour the player is seated as
StartPlaying ==
    /\ client.at = "startPlaying"
    /\ request_getStatus # STATUS_PENDING
    /\ client' = Client("whileOngoing", Match.players[WHITE] = Me,
                        request_getStatus, client.whitesTurn)
    /\ UNCHANGED <<players, games, req, ret, applied, conns>>

\* run: "while self.request_getStatus() == ChessMatch.STATUS_ONGOING"
WhileOngoing ==
    /\ client.at = "whileOngoing"
    /\ client' = [client EXCEPT
                     !.status = request_getStatus,
                     !.at = IF request_getStatus = STATUS_ONGOING
                            THEN "whileNotTurn" ELSE "gameOver"]
    /\ UNCHANGED <<players, games, req, ret, applied, conns>>

\* run: "while self.request_getState()['isWhitesTurn'] != self.isWhite"
WhileNotTurn ==
    /\ client.at = "whileNotTurn"
    /\ client' = [client EXCEPT
                     !.whitesTurn = request_isWhitesTurn,
                     !.at = IF request_isWhitesTurn # client.isWhite
                            THEN "ifStopped" ELSE "makePly"]
    /\ UNCHANGED <<players, games, req, ret, applied, conns>>

\* run: "if self.request_getStatus() != ChessMatch.STATUS_ONGOING: break"
\* inside the inner loop; break leaves the inner loop only, and the
\* statement after it is the one that asks for the board and moves
IfStopped ==
    /\ client.at = "ifStopped"
    /\ client' = [client EXCEPT
                     !.status = request_getStatus,
                     !.at = IF request_getStatus # STATUS_ONGOING
                            THEN "makePly" ELSE "whileNotTurn"]
    /\ UNCHANGED <<players, games, req, ret, applied, conns>>

\* run: getNextMove's ply is sent with request_makePly; whatever the
\* answer, the outer loop's test is next
PlayerMakePly ==
    /\ client.at = "makePly"
    /\ \E ply \in PlyInputs :
          LET r == ChessMatch_makePly(Match, Me, ply[1][1], ply[1][2],
                                      ply[2][1], ply[2][2])
          IN  /\ Len(r.match.history) <= MaxPlies
              /\ games' = [games EXCEPT ![FirstGameID] = r.match]
    /\ client' = [client EXCEPT !.at = "whileOngoing"]
    /\ UNCHANGED <<players, req, ret, applied, conns>>

\* the other player joins the match
OpponentJoins ==
    /\ client.at # "none"
    /\ Match.status = STATUS_PENDING
    /\ games' = [games EXCEPT ![FirstGameID] = ChessMatch_join(@, Opponent).match]
    /\ games' # games
    /\ UNCHANGED <<players, req, ret, applied, conns, client>>

\* the other player moves
OpponentMakePly ==
    /\ client.at # "none"
    /\ \E ply \in PlyInputs :
          LET r == ChessMatch_makePly(Match, Opponent, ply[1][1], ply[1][2],
                                      ply[2][1], ply[2][2])
          IN  /\ Len(r.match.history) <= MaxPlies
              /\ games' = [games EXCEPT ![FirstGameID] = r.match]
    /\ games' # games
    /\ UNCHANGED <<players, req, ret, applied, conns, client>>

\* cancelGame(self.gameID) is called on the registry
GameCancelled ==
    /\ client.at # "none"
    /\ games' = cancelGame(games, FirstGameID).games
    /\ games' # games
    /\ UNCHANGED <<players, req, ret, applied, conns, client>>

----------------------------------------------------------------------------
\* TournamentSystem.__init__: no players, no games
Init ==
    /\ players = NoPlayers
    /\ games = [k \in {} |-> ChessMatch_init(NoPlayer, WHITE)]
    /\ req = Idle
    /\ ret = NoRet
    /\ applied = 0
    /\ conns = NoConns
    /\ client = NoClient

\* the registry with the one match joinGame(first) creates in it
InitMatch ==
    /\ players = NoPlayers
    /\ \E first \in PlayerInputs, choice \in Colors :
          games = [k \in {FirstGameID} |-> ChessMatch_init(first, choice)]
    /\ req = Idle
    /\ ret = NoRet
    /\ applied = 0
    /\ conns = NoConns
    /\ client = NoClient

\* the registry with one match, ChessMatch(), in it
InitBoard ==
    /\ players = NoPlayers
    /\ games = [k \in {FirstGameID} |-> ChessMatch_init(NoPlayer, WHITE)]
    /\ req = Idle
    /\ ret = NoRet
    /\ applied = 0
    /\ conns = NoConns
    /\ client = NoClient

\* the registry driven through TournamentSystem's methods
Next ==
    \/ CallRegistry
    \/ Register
    \/ JoinGame
    \/ CancelGame
    \/ GetStatus
    \/ GetState
    \/ MakePly

Spec == Init /\ [][Next]_vars

\* one match driven through ChessMatch's methods and cancelGame
NextMatch ==
    \/ CallMatch
    \/ MatchJoin
    \/ MatchMakePly
    \/ CancelGame

SpecMatch == InitMatch /\ [][NextMatch]_vars

\* one match's board driven through ChessBoard.makePly
NextBoard ==
    \/ CallBoard
    \/ BoardMakePly

SpecBoard == InitBoard /\ [][NextBoard]_vars

\* a player that has registered and joined: the match is the one joinGame
\* created for it, or the one another player was waiting in
InitPlayer ==
    /\ players = [k \in {Me, Opponent} |-> IF k = Me THEN "alice" ELSE "bob"]
    /\ \E choice \in Colors :
          \/ games = [k \in {FirstGameID} |-> ChessMatch_init(Me, choice)]
          \/ games = [k \in {FirstGameID} |->
                         ChessMatch_join(ChessMatch_init(Opponent, choice),
                                         Me).match]
    /\ req = Idle
    /\ ret = NoRet
    /\ applied = 0
    /\ conns = NoConns
    /\ client = Client("startPlaying", FALSE, "", FALSE)

\* one player's run() against its match, the other player and cancelGame
NextPlayer ==
    \/ StartPlaying
    \/ WhileOngoing
    \/ WhileNotTurn
    \/ IfStopped
    \/ PlayerMakePly
    \/ OpponentJoins
    \/ OpponentMakePly
    \/ GameCancelled

SpecPlayer == InitPlayer /\ [][NextPlayer]_vars

\* the calls that allocate an identifier; the name "" is the one a
\* REGISTER line without an argument asks for
AllocRequests ==
    {Req("register", n, NoPlayer, 0, WHITE, NoPly) : n \in Names \cup {""}}
    \cup {Req("joinGame", "", p, 0, WHITE, NoPly) : p \in PlayerInputs}

\* a call of register or joinGame arrives
CallAlloc ==
    /\ req.op = "idle"
    /\ req' \in AllocRequests
    /\ ret' = NoRet
    /\ UNCHANGED <<players, games, applied, conns, client>>

\* the registry driven through the two methods that call _getUniqueInt
NextAlloc ==
    \/ CallAlloc
    \/ Register
    \/ JoinGame

SpecAlloc == Init /\ [][NextAlloc]_vars

\* the registry driven by clients of the network server
NextNet ==
    \E c \in Clients :
        \/ ConnectionMade(c)
        \/ ClientSends(c)
        \/ LineReceived(c)

SpecNet == Init /\ [][NextNet]_vars

\* the reactor hands every line that arrived to lineReceived
SpecNetFair == SpecNet /\ \A c \in Clients : WF_vars(LineReceived(c))

----------------------------------------------------------------------------
(* Properties *)

Seated(m, p) == p # NoPlayer /\ \E c \in Colors : m.players[c] = p

ColorOf(m, p) == IF m.players[WHITE] = p THEN WHITE ELSE BLACK

\* the match a ChessMatch-level call is made on, before and after the step
Before == games[req.game]
After  == games'[req.game]

SameSquares(b1, b2) ==
    \A r \in Index, f \in Index : At(b1.rows, r, f) = At(b2.rows, r, f)

SameBoard(b1, b2) ==
    /\ SameSquares(b1, b2)
    /\ \A c \in Colors :
          /\ \A f \in Index : b1.flag_enpassant[c][f] = b2.flag_enpassant[c][f]
          /\ b1.flag_canCastle[c] = b2.flag_canCastle[c]

ReqLegal(b, color) ==
    isLegalMove(b, color, req.ply[1][1], req.ply[1][2], req.ply[2][1], req.ply[2][2])

TurnIsParity ==
    \A g \in DOMAIN games :
        (whoseTurn(games[g]) = WHITE) <=> (Len(games[g].history) % 2 = 0)

\* C1 as stated: in any match whoseTurn() is WHITE iff the history has even
\* length, and a makePly by the seated player whose colour is not to move
\* returns "It is not your turn" and leaves history and board unchanged.
C1_AnyMatch ==
    /\ []TurnIsParity
    /\ [][ (/\ req.op = "ChessMatch.makePly"
            /\ Seated(Before, req.player)
            /\ ColorOf(Before, req.player) # whoseTurn(Before))
           => /\ ret'.text = "It is not your turn"
              /\ After.history = Before.history
              /\ SameBoard(After.board, Before.board) ]_vars

\* C1 (amended): whoseTurn() is WHITE iff the history has even length, and on
\* an ONGOING match a makePly by the seated player whose colour is not to
\* move returns "It is not your turn" and leaves history and board unchanged;
\* on a match that is not ONGOING the same call leaves them unchanged too.
C1_TurnOrder ==
    /\ []TurnIsParity
    /\ [][ (/\ req.op = "ChessMatch.makePly"
            /\ Seated(Before, req.player)
            /\ ColorOf(Before, req.player) # whoseTurn(Before))
           => /\ Before.status = STATUS_ONGOING
                    => ret'.text = "It is not your turn"
              /\ After.history = Before.history
              /\ SameBoard(After.board, Before.board) ]_vars

\* White, having moved, asked to move again and was told it is not its turn
C1_Witness ==
    /\ ret.op = "ChessMatch.makePly"
    /\ ret.text = "It is not your turn"
    /\ \E g \in DOMAIN games :
          /\ Len(games[g].history) = 1
          /\ games[g].players[WHITE] = ret.who

IsPrefix(s, t) == Len(s) <= Len(t) /\ SubSeq(t, 1, Len(s)) = s

\* C2: ChessMatch.makePly appends exactly the requested (from, to) pair to
\* the history and returns "SUCCESS" iff the board engine applied the move;
\* when the board engine rejects the move it returns "Illegal move" and the
\* history is unchanged; every history is a prefix of every later one.
C2_HistoryAppend ==
    /\ [][ req.op = "ChessMatch.makePly"
           => /\ ret'.text = "SUCCESS"
                    <=> After.history = Append(Before.history, req.ply)
              /\ ret'.text # "SUCCESS" => After.history = Before.history
              /\ ret'.text = "SUCCESS"
                    <=> ~SameSquares(After.board, Before.board)
              /\ (/\ Before.status = STATUS_ONGOING
                  /\ Seated(Before, req.player)
                  /\ ColorOf(Before, req.player) = whoseTurn(Before))
                 => IF ReqLegal(Before.board, ColorOf(Before, req.player))
                    THEN ret'.text = "SUCCESS"
                    ELSE ret'.text = "Illegal move" ]_vars
    /\ [][ \A g \in DOMAIN games :
              g \in DOMAIN games' /\ IsPrefix(games[g].history, games'[g].history)
         ]_vars

\* Black's reply was applied and is the second entry of the history
C2_Witness ==
    /\ ret.op = "ChessMatch.makePly"
    /\ ret.text = "SUCCESS"
    /\ \E g \in DOMAIN games :
          /\ Len(games[g].history) = 2
          /\ games[g].players[BLACK] = ret.who

\* C3: whenever isLegalMove(color, from, to) is false, ChessBoard.makePly
\* returns False and every field of the board is as before: all 64 squares,
\* both colours' en-passant flags and both colours' castling rights.
C3_IllegalLeavesBoard ==
    [][ (/\ req.op = "ChessBoard.makePly"
         /\ ~ReqLegal(Before.board, req.color))
        => /\ ret'.text = "False"
           /\ SameBoard(After.board, Before.board)
           /\ After.board = Before.board ]_vars

\* a ply was refused on a board that an applied ply had already changed
C3_Witness ==
    /\ ret.op = "ChessBoard.makePly"
    /\ ret.text = "False"
    /\ applied = 1
    /\ \E g \in DOMAIN games : ~SameSquares(games[g].board, ChessBoard_init)

\* C4: ChessMatch.makePly checks status, membership, turn and legality in
\* that order and the first failing check decides the error; a call on a
\* match that is not ONGOING, or by a playerID in neither slot, leaves board
\* and history unchanged, so a match's board changes only in a makePly step
\* of a seated player on an ONGOING match.
C4_CheckOrder ==
    /\ [][ req.op = "ChessMatch.makePly"
           => ret'.text =
                 IF Before.status # STATUS_ONGOING
                    THEN "Game not in progress"
                 ELSE IF \A c \in Colors : Before.players[c] # req.player
                    THEN "You are not a player in this game"
                 ELSE IF ColorOf(Before, req.player) # whoseTurn(Before)
                    THEN "It is not your turn"
                 ELSE IF ~ReqLegal(Before.board, ColorOf(Before, req.player))
                    THEN "Illegal move"
                 ELSE "SUCCESS" ]_vars
    /\ [][ (/\ req.op = "ChessMatch.makePly"
            /\ \/ Before.status # STATUS_ONGOING
               \/ \A c \in Colors : Before.players[c] # req.player)
           => After = Before ]_vars
    /\ [][ \A g \in DOMAIN games :
              games'[g].board # games[g].board
              => /\ req.op = "ChessMatch.makePly"
                 /\ req.game = g
                 /\ games[g].status = STATUS_ONGOING
                 /\ Seated(games[g], req.player) ]_vars

\* a third player asked for a ply on an ONGOING match and was refused as
\* not a player, after an earlier ply had been applied
C4_Witness ==
    /\ ret.op = "ChessMatch.makePly"
    /\ ret.text = "You are not a player in this game"
    /\ \E g \in DOMAIN games :
          /\ games[g].status = STATUS_ONGOING
          /\ Len(games[g].history) = 1
          /\ ret.who # NoPlayer
          /\ ~Seated(games[g], ret.who)

NoSelfPlay ==
    \A g \in DOMAIN games :
        games[g].players[WHITE] # NoPlayer
        => games[g].players[WHITE] # games[g].players[BLACK]

\* C5: ChessMatch.join(playerID) returns None and changes nothing when
\* playerID already occupies a slot of the match, and in every reachable
\* state the WHITE and BLACK slots of a match never hold the same player.
C5_NoSelfPlay ==
    /\ []NoSelfPlay
    /\ [][ (req.op = "ChessMatch.join" /\ Seated(Before, req.player))
           => ret'.kind = "none" /\ After = Before ]_vars

\* a player seated in a PENDING match asked to join it again and got None
C5_Witness ==
    /\ ret.op = "ChessMatch.join"
    /\ ret.kind = "none"
    /\ \E g \in DOMAIN games :
          /\ games[g].status = STATUS_PENDING
          /\ Seated(games[g], ret.who)

EmptySlots(m) == {c \in Colors : m.players[c] = NoPlayer}

\* C6: the join that fills the second slot changes the status from PENDING
\* to ONGOING; a match enters ONGOING only in that step and never returns to
\* PENDING, so it happens at most once; a join on a match that is not
\* PENDING returns None and leaves the match unchanged.
C6_JoinStartsOnce ==
    /\ [][ req.op = "ChessMatch.join"
           => /\ Before.status # STATUS_PENDING
                    => ret'.kind = "none" /\ After = Before
              /\ (/\ Before.status = STATUS_PENDING
                  /\ Cardinality(EmptySlots(Before)) = 1
                  /\ req.player # NoPlayer
                  /\ ~Seated(Before, req.player))
                 => /\ ret'.kind = "value"
                    /\ ret'.text \in EmptySlots(Before)
                    /\ After.players =
                          [Before.players EXCEPT ![ret'.text] = req.player]
                    /\ After.status = STATUS_ONGOING ]_vars
    /\ [][ \A g \in DOMAIN games :
              /\ games[g].status # STATUS_PENDING
                    => games'[g].status # STATUS_PENDING
              /\ (games'[g].status = STATUS_ONGOING
                     /\ games[g].status # STATUS_ONGOING)
                    => /\ req.op = "ChessMatch.join"
                       /\ req.game = g
                       /\ games[g].status = STATUS_PENDING
                       /\ EmptySlots(games'[g]) = {} ]_vars

\* a third player asked to join a match both of whose slots are filled
C6_Witness ==
    /\ ret.op = "ChessMatch.join"
    /\ ret.kind = "none"
    /\ ret.who # NoPlayer
    /\ \E g \in DOMAIN games :
          /\ games[g].status = STATUS_ONGOING
          /\ EmptySlots(games[g]) = {}
          /\ ~Seated(games[g], ret.who)

Terminal ==
    {STATUS_WHITE_WON, STATUS_BLACK_WON, STATUS_DRAWN, STATUS_CANCELLED}

\* C7: in every reachable state, every match of the registry has status
\* ONGOING iff both its colour slots are filled and its status is not a
\* terminal one; so a PENDING match has an empty slot and an ONGOING match
\* has two filled slots.
C7_OngoingIffSeated ==
    \A g \in DOMAIN games :
        /\ games[g].status = STATUS_ONGOING
              <=> /\ EmptySlots(games[g]) = {}
                  /\ games[g].status \notin Terminal
        /\ games[g].status = STATUS_PENDING => EmptySlots(games[g]) # {}

\* an ONGOING match with both slots filled, one ply played
C7_Witness ==
    \E g \in DOMAIN games :
        /\ games[g].status = STATUS_ONGOING
        /\ EmptySlots(games[g]) = {}
        /\ Len(games[g].history) = 1

StatusEdges ==
    {<<STATUS_PENDING, STATUS_ONGOING>>, <<STATUS_PENDING, STATUS_CANCELLED>>}
    \cup {<<STATUS_ONGOING, t>> : t \in Terminal}

\* C8: a match's status changes only along PENDING -> ONGOING, PENDING ->
\* CANCELLED and ONGOING -> {WHITE_WON, BLACK_WON, DRAWN, CANCELLED}.
C8_StatusEdges ==
    [][ \A g \in DOMAIN games :
           games'[g].status # games[g].status
           => <<games[g].status, games'[g].status>> \in StatusEdges ]_vars

\* a match that went PENDING -> ONGOING -> CANCELLED and was then asked to
\* take a player
C8_Witness ==
    /\ ret.op = "ChessMatch.join"
    /\ \E g \in DOMAIN games :
          /\ games[g].status = STATUS_CANCELLED
          /\ EmptySlots(games[g]) = {}

\* C9 as stated: cancelGame on a PENDING or ONGOING match succeeds and sets
\* the status to CANCELLED; on a match in any other status it fails with
\* "Game not active" and leaves the status unchanged.
C9_CancelContract ==
    [][ (req.op = "cancelGame" /\ req.game \in DOMAIN games)
        => IF Before.status \in {STATUS_PENDING, STATUS_ONGOING}
           THEN ret'.kind = "ok" /\ After.status = STATUS_CANCELLED
           ELSE /\ ret'.kind = "fail"
                /\ ret'.text = "Game not active"
                /\ games' = games ]_vars

UniqueNames ==
    \A a \in DOMAIN players, b \in DOMAIN players :
        players[a] = players[b] => a = b

\* C10: register(name) fails with "player with this name already exists"
\* and leaves the player map unchanged when name belongs to a registered
\* player, and no two player identifiers ever map to the same name.
C10_UniqueNames ==
    /\ []UniqueNames
    /\ [][ (req.op = "register" /\ req.name \in Range(players))
           => /\ ret'.kind = "fail"
              /\ ret'.text = "player with this name already exists"
              /\ players' = players ]_vars

\* a second registration of a name was refused while another name was free
C10_Witness ==
    /\ ret.op = "register"
    /\ ret.kind = "fail"
    /\ ret.text = "player with this name already exists"
    /\ Cardinality(DOMAIN players) = 1

----------------------------------------------------------------------------
\* every entry of the map old is in the map new, unchanged
Kept(old, new) == \A k \in DOMAIN old : k \in DOMAIN new /\ new[k] = old[k]

\* the last line sent on connection c
Answer(c) == conns[c].sent[Len(conns[c].sent)]

Registered(c) == conns[c].at = "closed" /\ Answer(c).status = "SUCCESS"

\* C11: with the request lines of different clients in flight at the same
\* time and handled in any order, no step replaces or removes an entry of
\* players or games, a successful REGISTER is answered with a playerID
\* that was free and now maps to the requested name, and two clients
\* holding a SUCCESS answer hold different identifiers.
C11_NoIdClash ==
    /\ [][Kept(players, players') /\ Kept(games, games')]_vars
    /\ [][\A c \in Clients :
            (conns[c].at = "sent" /\ Registered(c)')
            => /\ Answer(c)'.id \notin DOMAIN players
               /\ Answer(c)'.id \in DOMAIN players'
               /\ players'[Answer(c)'.id] = conns[c].line.tail]_vars
    /\ [](\A c \in Clients, d \in Clients :
            (c # d /\ Registered(c) /\ Registered(d))
            => Answer(c).id # Answer(d).id)

\* two clients have each been answered SUCCESS to a REGISTER
C11_Witness ==
    /\ \A c \in Clients : Registered(c) /\ conns[c].line.verb = "REGISTER"
    /\ Cardinality(DOMAIN players) = 2

\* the PENDING matches with a free seat that playerID does not sit in
Accepting(gs, playerID) ==
    {g \in DOMAIN gs : /\ gs[g].status = STATUS_PENDING
                       /\ EmptySlots(gs[g]) # {}
                       /\ ~Seated(gs[g], playerID)}

\* C12 as stated: with no PENDING match in the registry, joinGame by a
\* player creates a new PENDING match seating only that player; the next
\* joinGame, by a different player, joins that same match, makes it
\* ONGOING and returns the same gameID.
C12_SecondJoins ==
    [][ (req.op = "joinGame" /\ req.player # NoPlayer)
        => IF \A g \in DOMAIN games : games[g].status # STATUS_PENDING
           THEN /\ ret'.kind = "ok"
                /\ ret'.id \notin DOMAIN games
                /\ ret'.id \in DOMAIN games'
                /\ games'[ret'.id].status = STATUS_PENDING
                /\ \A p \in PlayerInputs :
                      Seated(games'[ret'.id], p) <=> p = req.player
           ELSE \A g \in Accepting(games, req.player) :
                   (Cardinality(EmptySlots(games[g])) = 1)
                   => /\ ret'.kind = "ok"
                      /\ ret'.id = g
                      /\ games'[g].status = STATUS_ONGOING
                      /\ Seated(games'[g], req.player)
                      /\ DOMAIN games' = DOMAIN games ]_vars

\* C13 as stated: joinGame(playerID) creates a new match only when no
\* PENDING match accepts the player, and it always returns successfully
\* with the identifier of a match in which playerID has a seat.
C13_JoinSeats ==
    [][ (req.op = "joinGame" /\ req.player # NoPlayer)
        => /\ ret'.kind = "ok"
           /\ ret'.id \in DOMAIN games'
           /\ Seated(games'[ret'.id], req.player)
           /\ (DOMAIN games' # DOMAIN games
               => Accepting(games, req.player) = {}) ]_vars

\* C14 as stated: getStatus and getState fail with "Invalid game ID" for an
\* unknown gameID, succeed for every known gameID (getStatus with the
\* match's current status), and change nothing in the registry.
C14_Queries ==
    [][ (req.op \in {"getStatus", "getState"})
        => /\ games' = games
           /\ players' = players
           /\ IF req.game \in DOMAIN games
              THEN /\ ret'.kind = "ok"
                   /\ req.op = "getStatus" => ret'.text = Before.status
              ELSE /\ ret'.kind = "fail"
                   /\ ret'.text = "Invalid game ID" ]_vars

\* C15 as stated: TournamentSystem.makePly fails with "Invalid game ID" for
\* an unknown gameID; for a known one it hands the ply to the match's
\* makePly, succeeds exactly when the match returned SUCCESS, and otherwise
\* fails with the match's error reason.
C15_MakePlyDelegates ==
    [][ (req.op = "makePly")
        => IF req.game \in DOMAIN games
           THEN LET r == ChessMatch_makePly(Before, req.player,
                             req.ply[1][1], req.ply[1][2],
                             req.ply[2][1], req.ply[2][2])
                IN  /\ After = r.match
                    /\ IF r.ret = "SUCCESS"
                       THEN ret'.kind = "ok"
                       ELSE ret'.kind = "fail" /\ ret'.text = r.ret
           ELSE /\ ret'.kind = "fail"
                /\ ret'.text = "Invalid game ID"
                /\ games' = games ]_vars

RegistryOps ==
    {"register", "joinGame", "cancelGame", "getStatus", "getState", "makePly"}

\* C16 as stated: every registry operation ends by returning a (success,
\* payload) or (failure, error) pair; it never ends in an unhandled fault
\* other than the RuntimeError of an exhausted identifier range.
C16_AlwaysReturnsPair ==
    ret.op \in RegistryOps
    => \/ ret.kind \in {"ok", "fail"}
       \/ ret.kind = "raise" /\ ret.text = "RuntimeError"

----------------------------------------------------------------------------
\* connection c's request line is handled in this step
Handles(c) == conns[c].at = "sent" /\ conns'[c].at # "sent"

\* the argument names the request line on connection c carries
Supplied(c) == DOMAIN conns[c].line.tail

\* C17 as stated: lineReceived answers a line whose request name is not one
\* of the five with the unrecognised-verb error, and a line with a known
\* request name whose argument names are not exactly the expected ones
\* with the invalid-arguments error naming the expected set; in both cases
\* it calls no TournamentSystem method and leaves players and games alone.
C17_DispatcherRejects ==
    [][\A c \in Clients :
          LET line == conns[c].line
          IN  Handles(c)
              => /\ line.verb \notin DOMAIN validRequests
                    => /\ conns'[c].at = "closed"
                       /\ Answer(c)' = UnrecognizedVerb(line.verb, line)
                       /\ conns'[c].called = ""
                       /\ players' = players /\ games' = games
                 /\ (/\ line.verb \in DOMAIN validRequests
                     /\ Supplied(c) # validRequests[line.verb].expArgs)
                    => /\ conns'[c].at = "closed"
                       /\ Answer(c)' =
                             InvalidArguments(validRequests[line.verb].expArgs,
                                              line)
                       /\ conns'[c].called = ""
                       /\ players' = players /\ games' = games]_vars

\* C18 as stated: a line with one of the five request names that carries
\* exactly the expected argument names is accepted: lineReceived calls the
\* method bound to the name and sends the client what the method returned,
\* the payload after SUCCESS or the error after ERROR.
C18_DispatcherAccepts ==
    [][\A c \in Clients :
          LET line == conns[c].line
          IN  (/\ Handles(c)
               /\ line.verb \in DOMAIN validRequests
               /\ Supplied(c) = validRequests[line.verb].expArgs
               /\ ~(line.verb = "REGISTER"
                    /\ getUniqueInt_raises(DOMAIN players)))
              => /\ conns'[c].called = validRequests[line.verb].tsCommand
                 /\ conns'[c].at = "closed"
                 /\ Answer(c)'.status \in {"SUCCESS", "ERROR"}
                 /\ Answer(c)'.text # "Invalid arguments, expected: {0}"]_vars

\* connection c was sent the welcome line and one SUCCESS or ERROR line,
\* and was closed
AnsweredOnce(c) ==
    /\ conns[c].at = "closed"
    /\ Len(conns[c].sent) = 2
    /\ Answer(c).status \in {"SUCCESS", "ERROR"}

\* connection c's REGISTER met a player map with no identifier left to
\* draw: _getUniqueInt raised RuntimeError and nothing was sent
Exhausted(c) ==
    /\ conns[c].at = "fault"
    /\ Len(conns[c].sent) = 1
    /\ conns[c].line.verb = "REGISTER"
    /\ conns[c].called = "register"
    /\ getUniqueInt_raises(DOMAIN players)

\* C19 as stated: every request line that arrives is in the end answered
\* with exactly one SUCCESS or ERROR line and the connection closed,
\* whatever the request and the registry's state.
C19_AlwaysAnswered ==
    /\ [](\A c \in Clients :
            conns[c].at \in {"closed", "fault"} => AnsweredOnce(c))
    /\ \A c \in Clients : (conns[c].at = "sent") ~> AnsweredOnce(c)

\* C19: every request line that arrives is in the end either answered with
\* exactly one SUCCESS or ERROR line and the connection closed, or it is a
\* REGISTER that found the identifier range exhausted, which ends in
\* RuntimeError without an answer.
C19_AnsweredUnlessExhausted ==
    /\ [](\A c \in Clients :
            conns[c].at \in {"closed", "fault"}
            => AnsweredOnce(c) \/ Exhausted(c))
    /\ \A c \in Clients :
          (conns[c].at = "sent") ~> (AnsweredOnce(c) \/ Exhausted(c))

\* one client was answered SUCCESS and the other ERROR
C19_Witness ==
    /\ \A c \in Clients : AnsweredOnce(c)
    /\ {Answer(c).status : c \in Clients} = {"SUCCESS", "ERROR"}

----------------------------------------------------------------------------
\* the board after the plies of history h, White's first, on a new board
RECURSIVE Replay(_)
Replay(h) ==
    IF h = <<>>
    THEN ChessBoard_init
    ELSE LET n   == Len(h)
             ply == h[n]
         IN  ChessBoard_makePly(Replay(SubSeq(h, 1, n - 1)),
                                IF (n - 1) % 2 = 0 THEN WHITE ELSE BLACK,
                                ply[1][1], ply[1][2], ply[2][1], ply[2][2]).board

----------------------------------------------------------------------------
(* The board's rules, on the ply a caller of ChessBoard.makePly asks for *)

ReqAsked == req.op = "ChessBoard.makePly"

FromRank == req.ply[1][1]
FromFile == req.ply[1][2]
ToRank   == req.ply[2][1]
ToFile   == req.ply[2][2]

\* the entries on the requested squares
Origin == At(Before.board.rows, FromRank, FromFile)
Destin == At(Before.board.rows, ToRank, ToFile)

\* C21: isLegalMove(color, from, to) is false when from is empty, when from
\* holds a piece of the other colour, and when to holds a piece of colour
\* color (from = to included).
C21_OwnPieceToFreeSquare ==
    ReqAsked
    => /\ Origin = None => ~ReqLegal(Before.board, req.color)
       /\ (Origin # None /\ Origin[1] # req.color)
          => ~ReqLegal(Before.board, req.color)
       /\ (Destin # None /\ Destin[1] = req.color)
          => ~ReqLegal(Before.board, req.color)

\* after one applied ply a colour asks to move its piece onto another of
\* its pieces
C21_Witness ==
    /\ ReqAsked
    /\ applied = 1
    /\ Origin # None /\ Origin[1] = req.color
    /\ Destin # None /\ Destin[1] = req.color
    /\ req.ply[1] # req.ply[2]

\* a colour's pawn starting rank and forward direction
PawnStart(color) == IF color = WHITE THEN 1 ELSE 6

Forward(color) == IF color = WHITE THEN 1 ELSE -1

\* the mover asks to move one of its pawns
OwnPawnAsked == ReqAsked /\ Origin = <<req.color, PAWN>>

\* ranks the requested ply advances, in the mover's forward direction
RankDelta == (ToRank - FromRank) * Forward(req.color)

FileDelta == Abs(ToFile - FromFile)

\* C22 as stated: a pawn's move two squares straight forward is legal
\* exactly when the pawn stands on its colour's starting rank (1 for
\* WHITE, 6 for BLACK) and both the square it passes and the square it
\* lands on are empty.
C22_DoubleStep ==
    (OwnPawnAsked /\ FileDelta = 0 /\ RankDelta = 2)
    => (ReqLegal(Before.board, req.color)
        <=> /\ FromRank = PawnStart(req.color)
            /\ Destin = None
            /\ At(Before.board.rows, FromRank + Forward(req.color),
                  FromFile) = None)

\* C23: a pawn's move is legal only if it advances one or two ranks in its
\* colour's forward direction, never backward or sideways; a legal move of
\* one rank keeps the file only onto an empty square, changes the file by
\* one only onto a square holding an enemy piece or as an en-passant
\* capture (the enemy's flag for the destination file set), and never
\* changes the file by more than one.
C23_PawnForwardOnly ==
    (OwnPawnAsked /\ ReqLegal(Before.board, req.color))
    => /\ RankDelta \in {1, 2}
       /\ RankDelta = 1
          => /\ FileDelta \in {0, 1}
             /\ FileDelta = 0 => Destin = None
             /\ FileDelta = 1
                => \/ Destin # None /\ Destin[1] # req.color
                   \/ \E c \in Colors :
                         c # req.color /\ Before.board.flag_enpassant[c][ToFile]

\* a pawn that advanced one rank stands in an enemy pawn's reach, and that
\* pawn asks to take it
C23_Witness ==
    /\ OwnPawnAsked
    /\ applied = 1
    /\ RankDelta = 1
    /\ FileDelta = 1
    /\ Destin # None /\ Destin[2] = PAWN /\ Destin[1] # req.color
    /\ ReqLegal(Before.board, req.color)

\* the requested ply is the mover's pawn going two ranks straight forward
\* from its starting rank
DoubleAdvanceAsked ==
    /\ OwnPawnAsked
    /\ FromRank = PawnStart(req.color)
    /\ RankDelta = 2
    /\ FileDelta = 0

\* C24 as stated: once a colour's pawn has made its two-square first
\* advance on file f, that colour's en-passant flag for f is true and its
\* other flags are false; after any other applied ply of the colour all
\* its flags are false; so at most one flag per colour is ever true.
C24_EnPassantFlag ==
    /\ [][ (ReqAsked /\ ret'.text = "True")
           => \A f \in Index :
                 After.board.flag_enpassant[req.color][f]
                 <=> (DoubleAdvanceAsked /\ f = FromFile) ]_vars
    /\ [](\A g \in DOMAIN games : \A c \in Colors :
            Cardinality({f \in Index : games[g].board.flag_enpassant[c][f]})
               <= 1)

\* the rank from which a colour's pawn takes en passant
CaptureRank(color) == IF color = WHITE THEN 4 ELSE 3

Enemy(color) == IF color = WHITE THEN BLACK ELSE WHITE

\* the mover asks for a pawn's diagonal step from its capture rank onto an
\* empty square
EnPassantAsked ==
    /\ OwnPawnAsked
    /\ FromRank = CaptureRank(req.color)
    /\ RankDelta = 1
    /\ FileDelta = 1
    /\ Destin = None

OwnPieceAsked(kind) == ReqAsked /\ Origin = <<req.color, kind>>

\* C26 as stated: an applied ply of a colour's king leaves that colour's
\* castling rights (False, False); an applied ply of its rook away from
\* file 0 makes only the queen-side right false, from file 7 only the
\* king-side right; the other colour's rights are unchanged.
C26_CastlingRights ==
    [][ (ReqAsked /\ ret'.text = "True")
        => LET old == Before.board.flag_canCastle
               new == After.board.flag_canCastle
           IN  /\ new[Enemy(req.color)] = old[Enemy(req.color)]
               /\ OwnPieceAsked(KING) => new[req.color] = <<FALSE, FALSE>>
               /\ (OwnPieceAsked(ROOK) /\ FromFile = 0)
                  => new[req.color] = <<FALSE, old[req.color][2]>>
               /\ (OwnPieceAsked(ROOK) /\ FromFile = 7)
                  => new[req.color] = <<old[req.color][1], FALSE>> ]_vars

Sides == {1, 2}

C28_FreshInOwnNamespace ==
    /\ [][(req.op = "register" /\ ret'.kind = "ok")
          => /\ ret'.id \in 1..maxVals
             /\ ret'.id \notin DOMAIN players
             /\ DOMAIN players' = DOMAIN players \cup {ret'.id}]_vars
    /\ [][(req.op = "joinGame" /\ ret'.kind = "ok")
          => /\ ret'.id \in 1..maxVals
             /\ ret'.id \notin DOMAIN games
             /\ DOMAIN games' = DOMAIN games \cup {ret'.id}]_vars

\* joinGame has just returned a gameID that is also a playerID in use
C28_Witness ==
    /\ ret.op = "joinGame"
    /\ ret.kind = "ok"
    /\ ret.id \in DOMAIN games
    /\ ret.id \in DOMAIN players

\* the call in req allocates an identifier in a full namespace
FullNamespace ==
    \/ /\ req.op = "register"
       /\ req.name \notin Range(players)
       /\ Cardinality(DOMAIN players) >= maxSize
    \/ /\ req.op = "joinGame"
       /\ Cardinality(DOMAIN games) >= maxSize

\* C29: a register or joinGame call that has to allocate an identifier in
\* a namespace holding maxSize identifiers or more ends in RuntimeError,
\* and players and games are what they were before the call.
C29_ExhaustedFailsFast ==
    [][FullNamespace
       => /\ ret'.kind = "raise"
          /\ ret'.text = "RuntimeError"
          /\ players' = players
          /\ games' = games]_vars

\* register has just raised RuntimeError on a full player map
C29_Witness ==
    /\ ret.op = "register"
    /\ ret.kind = "raise"
    /\ ret.text = "RuntimeError"
    /\ Cardinality(DOMAIN players) >= maxSize

Sign(n) == IF n > 0 THEN 1 ELSE IF n < 0 THEN -1 ELSE 0

AlongLine == FromRank = ToRank \/ FromFile = ToFile

AlongDiagonal == Abs(ToRank - FromRank) = Abs(ToFile - FromFile)

\* the squares strictly between the requested origin and destination
Between ==
    LET n == IF Abs(ToRank - FromRank) > Abs(ToFile - FromFile)
             THEN Abs(ToRank - FromRank) ELSE Abs(ToFile - FromFile)
    IN  {<<FromRank + i * Sign(ToRank - FromRank),
           FromFile + i * Sign(ToFile - FromFile)>> : i \in 1 .. n - 1}

PathClear == \A s \in Between : At(Before.board.rows, s[1], s[2]) = None

\* C30 as stated: a rook's move is legal only along a rank or file, a
\* bishop's only along a diagonal, a queen's only along either, and only
\* when every square strictly between origin and destination is empty.
C30_SlidingPieces ==
    (ReqAsked /\ ReqLegal(Before.board, req.color))
    => /\ OwnPieceAsked(ROOK) => AlongLine /\ PathClear
       /\ OwnPieceAsked(BISH) => AlongDiagonal /\ PathClear
       /\ OwnPieceAsked(QUEN) => (AlongLine \/ AlongDiagonal) /\ PathClear

\* a player asks to join a PENDING match with both seats free
JoinEmptyAsked ==
    /\ req.op = "ChessMatch.join"
    /\ req.player # NoPlayer
    /\ Before.status = STATUS_PENDING
    /\ \A c \in Colors : Before.players[c] = NoPlayer

\* C31 as stated: the first player of a match can get either colour: for
\* each colour ChessMatch(firstPlayerID) has a draw that seats the player
\* there, and a join on a match with both seats free can return it.
C31_EitherColour ==
    /\ \A p \in PlayerInputs \ {NoPlayer} : \A c \in Colors :
          \E choice \in Colors : ChessMatch_init(p, choice).players[c] = p
    /\ JoinEmptyAsked
       => \A c \in Colors :
             ENABLED (MatchJoin /\ ret'.text = c /\ After.players[c] = req.player)

\* new is old after operations on it: a taken seat keeps its player, the
\* history only grows, and a terminal status stays
SameMatch(old, new) ==
    /\ \A c \in Colors : old.players[c] # NoPlayer
                         => new.players[c] = old.players[c]
    /\ Len(new.history) >= Len(old.history)
    /\ SubSeq(new.history, 1, Len(old.history)) = old.history
    /\ old.status \in Terminal => new.status = old.status

\* C32: no step removes a key of players or of games, a playerID keeps its
\* name, and a gameID keeps its match, cancelled matches included.
C32_GrowOnly ==
    [][/\ \A k \in DOMAIN players :
             k \in DOMAIN players' /\ players'[k] = players[k]
       /\ \A g \in DOMAIN games :
             g \in DOMAIN games' /\ SameMatch(games[g], games'[g])]_vars

\* a register call has succeeded with a cancelled match in the registry
C32_Witness ==
    /\ ret.op = "register"
    /\ ret.kind = "ok"
    /\ Cardinality(DOMAIN players) = 2
    /\ \E g \in DOMAIN games : games[g].status = STATUS_CANCELLED

\* the number of squares of the 8x8 board that hold a piece
PieceCount(b) ==
    Cardinality({s \in Index \X Index : At(b.rows, s[1], s[2]) # None})

\* the squares an applied ply may change: origin, destination and, for an
\* en-passant capture, the square beside the origin on the destination file
Touched ==
    {<<FromRank, FromFile>>, <<ToRank, ToFile>>}
    \cup (IF EnPassantAsked THEN {<<FromRank, ToFile>>} ELSE {})

\* C33 as stated: an applied ply empties the origin square, puts the moved
\* piece on the destination square and leaves every square other than
\* these (and the pawn captured en passant) as it was, so the number of
\* pieces on the board never grows and falls by at most one.
C33_OnlyTwoSquares ==
    [][ (ReqAsked /\ ret'.text = "True")
        => /\ At(After.board.rows, FromRank, FromFile) = None
           /\ At(After.board.rows, ToRank, ToFile) = Origin
           /\ \A s \in (Index \X Index) \ Touched :
                 At(After.board.rows, s[1], s[2])
                    = At(Before.board.rows, s[1], s[2])
           /\ PieceCount(After.board) <= PieceCount(Before.board)
           /\ PieceCount(After.board) >= PieceCount(Before.board) - 1 ]_vars

\* C34 as stated: every playerID in a colour slot of a match is a key of
\* players, and a joinGame with a playerID that is not one seats nobody.
C34_SeatedAreRegistered ==
    /\ [](\A g \in DOMAIN games : \A c \in Colors :
             games[g].players[c] # NoPlayer
             => games[g].players[c] \in DOMAIN players)
    /\ [][(req.op = "joinGame" /\ req.player \notin DOMAIN players)
          => /\ ret'.kind # "ok"
             /\ games' = games]_vars

\* the player sends a makePly request in this step
PlayerAsksPly == client.at = "makePly" /\ client'.at # "makePly"

\* C35 as stated: the player sends a makePly request only after it was
\* told that the match is ONGOING and that its colour is to move, and a
\* player that finds, while waiting for its turn, that the match has left
\* ONGOING stops without sending one.
C35_PlaysOnlyOnTurn ==
    /\ [][PlayerAsksPly
          => /\ client.status = STATUS_ONGOING
             /\ client.whitesTurn = client.isWhite]_vars
    /\ [][(client.at = "ifStopped" /\ request_getStatus # STATUS_ONGOING)
          => client'.at # "makePly"]_vars

====
